---- MODULE Spec2Model ----
(***************************************************************************)
(* Model of the EZ-Diffusion simulate-and-recover program:                 *)
(*   src/src/ez_diffusion.py  class EZDiffusion                            *)
(*   src/src/simulate.py      class SimulationRunner                       *)
(*                                                                         *)
(* Python floats are modelled as exact rationals <<num, den>> (den > 0,    *)
(* lowest terms).  exp and log are kept symbolic: an accuracy is either a  *)
(* literal rational or sigmoid(x) = 1/(1+exp(-x)) for a rational x, and a  *)
(* logarithm is either a rational or c*ln(r) for rationals c and r.        *)
(***************************************************************************)
EXTENDS Integers, Sequences, FiniteSets, TLC

VARIABLES
    ez,                     \* the EZDiffusion object under call, or NoObject
    ctor,                   \* the last EZDiffusion(...) call: arguments, outcome
    fwd,                    \* the last forward_equations call on ez
    inv,                    \* the last inverse_equations call on ez
    n_iterations,           \* SimulationRunner.n_iterations
    sample_sizes,           \* SimulationRunner.sample_sizes
    results,                \* run_simulations: the dict results, key -> list
    N_results,              \* run_simulations: the list of the current N
    si,                     \* run_simulations: position in sample_sizes
    i,                      \* run_simulations: iterations done for this N
    successful_iterations,  \* run_simulations: the counter of line 106
    status,                 \* where the runner is
    exc,                    \* the exception that left run_simulations, if any
    trial,                  \* the last simulate_and_recover call
    summary,                \* analyze_results: the dict it returned
    sim                     \* the EZDiffusion.simulate call in progress

vars == <<ez, ctor, fwd, inv, n_iterations, sample_sizes, results, N_results,
          si, i, successful_iterations, status, exc, trial, summary, sim>>
ezVars == <<ez, ctor, fwd, inv>>
runVars == <<n_iterations, sample_sizes, results, N_results, si, i,
             successful_iterations, status, exc, trial, summary>>

\* ------------------------------------------------------------------ bounds

\* largest n_iterations a run is configured with
MaxIter == 2
\* longest sample_sizes list a run is configured with
MaxSizes == 2
\* largest number of trials (len(sample_sizes) * n_iterations) of one run
MaxTrials == 4
\* largest n_trials a simulate call is made with
MaxSimTrials == 2

\* ------------------------------------------------------- float arithmetic

Abs(n) == IF n < 0 THEN -n ELSE n

RECURSIVE GCD(_, _)
GCD(m, n) == IF n = 0 THEN m ELSE GCD(n, m % n)

\* the float n/d (d # 0), in lowest terms with a positive denominator
Rat(n, d) ==
    LET g == GCD(Abs(n), Abs(d))
        s == IF d < 0 THEN -1 ELSE 1
    IN  <<(s * n) \div g, (s * d) \div g>>

Zero == Rat(0, 1)
One == Rat(1, 1)
Two == Rat(2, 1)
Half == Rat(1, 2)

RAdd(p, q) == Rat(p[1] * q[2] + q[1] * p[2], p[2] * q[2])
RSub(p, q) == Rat(p[1] * q[2] - q[1] * p[2], p[2] * q[2])
RMul(p, q) == Rat(p[1] * q[1], p[2] * q[2])
\* p / q for q # 0
RDiv(p, q) == Rat(p[1] * q[2], p[2] * q[1])
RLt(p, q) == p[1] * q[2] < q[1] * p[2]
RLe(p, q) == p[1] * q[2] <= q[1] * p[2]
RAbs(p) == <<Abs(p[1]), p[2]>>

\* ---------------------------------------------------- symbolic exp and log

\* an accuracy given as a literal float
Lit(q) == [k |-> "lit", v |-> q]
\* 1 / (1 + np.exp(-x))
Sigmoid(x) == [k |-> "sigmoid", x |-> x]

\* 0 < pc < 1: a sigmoid of a finite x always is; a literal is compared
InUnitInterval(pc) ==
    IF pc.k = "sigmoid" THEN TRUE ELSE RLt(Zero, pc.v) /\ RLt(pc.v, One)

\* a real number: a rational, or c * ln(arg) with arg > 0, arg # 1, c # 0
RealRat(q) == [k |-> "rat", v |-> q]
RealLn(c, arg) ==
    IF arg = One \/ c = Zero THEN RealRat(Zero) ELSE [k |-> "ln", c |-> c, arg |-> arg]

\* the logit with the odds upside down: np.log((1 - pc) / pc)
LogOdds_inverted(pc) ==
    IF pc.k = "sigmoid" THEN RealRat(RSub(Zero, pc.x))
    ELSE RealLn(One, RDiv(RSub(One, pc.v), pc.v))

\* np.log(pc / (1 - pc)) for 0 < pc < 1:
\*   pc = sigmoid(x) has odds exp(x), whose log is x;
\*   a literal pc has the rational odds pc / (1 - pc)
LogOdds(pc) ==
    IF pc.k = "sigmoid" THEN RealRat(pc.x)
    ELSE RealLn(One, RDiv(pc.v, RSub(One, pc.v)))

\* q * x and x / q for a rational q and a real x
XScale(q, x) ==
    IF x.k = "rat" THEN RealRat(RMul(q, x.v)) ELSE RealLn(RMul(q, x.c), x.arg)
XDiv(x, q) == XScale(RDiv(One, q), x)

\* -1, 0 or 1 as x is negative, zero or positive (ln(arg) > 0 iff arg > 1)
XSign(x) ==
    IF x.k = "rat"
    THEN (IF x.v[1] < 0 THEN -1 ELSE IF x.v[1] = 0 THEN 0 ELSE 1)
    ELSE (IF x.c[1] < 0 THEN -1 ELSE 1) * (IF RLt(One, x.arg) THEN 1 ELSE -1)

\* ------------------------------------------------------ call outcomes

NoObject == [none |-> TRUE]
NoCall == [op |-> "none"]
NotComputed == [k |-> "not_computed"]

Raised(type, msg) == [raised |-> TRUE, type |-> type, msg |-> msg]

\* ------------------------------------------------------------ EZDiffusion

\* __init__ with the boundary check written a < 0: a = 0 is accepted
EZDiffusion_init_accepts_zero_a(T_er, a, z) ==
    IF RLt(T_er, Zero)
    THEN Raised("ValueError", "Non-decision time (T_er) must be non-negative")
    ELSE IF RLt(a, Zero)
    THEN Raised("ValueError", "Boundary separation (a) must be positive")
    ELSE IF ~(RLt(Zero, z) /\ RLt(z, One))
    THEN Raised("ValueError", "Starting point (z) must be between 0 and 1")
    ELSE [raised |-> FALSE, T_er |-> T_er, a |-> a, z |-> z]

\* EZDiffusion.__init__(T_er, a, z): the object, or the ValueError raised
EZDiffusion_init(T_er, a, z) ==
    IF RLt(T_er, Zero)
    THEN Raised("ValueError", "Non-decision time (T_er) must be non-negative")
    ELSE IF RLe(a, Zero)
    THEN Raised("ValueError", "Boundary separation (a) must be positive")
    ELSE IF ~(RLt(Zero, z) /\ RLt(z, One))
    THEN Raised("ValueError", "Starting point (z) must be between 0 and 1")
    ELSE [raised |-> FALSE, T_er |-> T_er, a |-> a, z |-> z]

\* EZDiffusion(): the default arguments T_er=0.3, a=0.1, z=0.5
EZDiffusion_default == EZDiffusion_init(Rat(3, 10), Rat(1, 10), Rat(1, 2))

\* 1 / (1 + np.exp(e))
InvOnePlusExp(e) == Sigmoid(RSub(Zero, e))

\* EZDiffusion.forward_equations(nu): (mrt, vrt, pc), or the ValueError
forward_equations(self, nu) ==
    IF nu = Zero
    THEN Raised("ValueError", "Drift rate cannot be zero")
    ELSE
        LET pc == InvOnePlusExp(RMul(RMul(RMul(Rat(-2, 1), nu), self.a), self.z))
            mdt == RDiv(self.a, RMul(Two, RAbs(nu)))
            mrt == RAdd(self.T_er, mdt)
            vrt == RMul(RMul(RDiv(RMul(self.a, self.a), RMul(nu, nu)), self.z),
                        RSub(One, self.z))
        IN  [raised |-> FALSE, mrt |-> mrt, vrt |-> vrt, pc |-> pc]

\* inverse_equations with the variance check written vrt < 0: a variance of
\* zero goes on to the logit
inverse_equations_accepts_zero_vrt(self, mrt, vrt, pc) ==
    IF ~InUnitInterval(pc)
    THEN [raised |-> TRUE, type |-> "ValueError",
          msg |-> "Proportion correct must be between 0 and 1",
          logit_pc |-> NotComputed]
    ELSE IF RLt(vrt, Zero)
    THEN [raised |-> TRUE, type |-> "ValueError",
          msg |-> "RT variance must be positive",
          logit_pc |-> NotComputed]
    ELSE
        LET logit_pc == LogOdds(pc)
            nu_est ==
                IF self.z = Half
                THEN XDiv(XScale(self.a, logit_pc),
                          RMul(RMul(Two, self.z), RMul(self.a, self.a)))
                ELSE XDiv(logit_pc, RMul(RMul(Two, self.a), self.z))
        IN  [raised |-> FALSE, logit_pc |-> logit_pc, ret |-> <<nu_est>>]

\* EZDiffusion.inverse_equations(mrt, vrt, pc): the values returned (ret, a
\* tuple of what the return statement returns) and the logit computed on
\* the way, or the ValueError raised before any of it
inverse_equations(self, mrt, vrt, pc) ==
    IF ~InUnitInterval(pc)
    THEN [raised |-> TRUE, type |-> "ValueError",
          msg |-> "Proportion correct must be between 0 and 1",
          logit_pc |-> NotComputed]
    ELSE IF RLe(vrt, Zero)
    THEN [raised |-> TRUE, type |-> "ValueError",
          msg |-> "RT variance must be positive",
          logit_pc |-> NotComputed]
    ELSE
        LET logit_pc == LogOdds(pc)
            nu_est ==
                IF self.z = Half
                THEN XDiv(XScale(self.a, logit_pc),
                          RMul(RMul(Two, self.z), RMul(self.a, self.a)))
                ELSE XDiv(logit_pc, RMul(RMul(Two, self.a), self.z))
        IN  [raised |-> FALSE, logit_pc |-> logit_pc, ret |-> <<nu_est>>]

\* the arguments the calls are made with
TErArgs == {Rat(-1, 10), Rat(1, 10), Rat(3, 10), Rat(1, 2)}
AArgs == {Rat(-1, 1), Zero, Rat(1, 10), Half, Two}
ZArgs == {Zero, Rat(1, 4), Half, One}
NuArgs == {Rat(-1, 1), Zero, Half, Rat(3, 2), Two}
MrtArgs == {Half}
VrtArgs == {Rat(-1, 10), Zero, Rat(1, 10)}
PcArgs == {Lit(Zero), Lit(Rat(1, 4)), Lit(Half), Lit(Rat(3, 4)), Lit(One)}

\* obj = EZDiffusion(T_er, a, z)
Construct ==
    \E T_er \in TErArgs, a \in AArgs, z \in ZArgs :
        LET r == EZDiffusion_init(T_er, a, z)
        IN  /\ ctor' = [op |-> "init", T_er |-> T_er, a |-> a, z |-> z,
                         raised |-> r.raised]
            /\ ez' = IF r.raised THEN NoObject ELSE r
            /\ fwd' = NoCall
            /\ inv' = NoCall
            /\ UNCHANGED <<runVars, sim>>

\* obj.forward_equations(nu)
CallForward ==
    /\ ez # NoObject
    /\ \E nu \in NuArgs :
        fwd' = [op |-> "forward_equations", nu |-> nu,
                out |-> forward_equations(ez, nu)]
    /\ UNCHANGED <<ez, ctor, inv>>
    /\ UNCHANGED <<runVars, sim>>

\* obj.inverse_equations(mrt, vrt, pc) on given statistics
CallInverse ==
    /\ ez # NoObject
    /\ \E mrt \in MrtArgs, vrt \in VrtArgs, pc \in PcArgs :
        inv' = [op |-> "inverse_equations", mrt |-> mrt, vrt |-> vrt, pc |-> pc,
                out |-> inverse_equations(ez, mrt, vrt, pc)]
    /\ UNCHANGED <<ez, ctor, fwd>>
    /\ UNCHANGED <<runVars, sim>>

\* obj.inverse_equations(*obj.forward_equations(nu)): the noise-free round trip
RoundTrip ==
    /\ ez # NoObject
    /\ fwd.op = "forward_equations"
    /\ ~fwd.out.raised
    /\ inv' = [op |-> "inverse_equations", mrt |-> fwd.out.mrt,
                vrt |-> fwd.out.vrt, pc |-> fwd.out.pc,
                out |-> inverse_equations(ez, fwd.out.mrt, fwd.out.vrt, fwd.out.pc)]
    /\ UNCHANGED <<ez, ctor, fwd>>
    /\ UNCHANGED <<runVars, sim>>


\* ------------------------------------------------------- SimulationRunner

\* SimulationRunner.__init__: sample_sizes or [10, 40, 4000]
SimulationRunner_sample_sizes(arg) ==
    IF arg = <<>> THEN <<10, 40, 4000>> ELSE arg

\* the sample sizes a configured list is made of
SizeValues == {10, 40}
SizeLists == UNION {[1..n -> SizeValues] : n \in 0..MaxSizes}

\* generate_true_parameters: the (nu, alpha, tau) that the three uniform
\* draws over [0.5, 2.0], [0.5, 2.0] and [0.1, 0.5] can return
generate_true_parameters ==
    {<<nu, alpha, tau>> : nu \in {Half, Two}, alpha \in {One}, tau \in {Rat(1, 10)}}

\* ez_diffusion.forward(nu, alpha, tau): no such method is defined in
\* ez_diffusion.py, so the call raises; the three-parameter forward model it
\* names fails on drift = 0 or boundary <= 0 and otherwise predicts the
\* statistics of (nu, alpha, tau)
forward(nu, alpha, tau) ==
    {Raised("Exception", "forward")}
    \cup (IF nu = Zero \/ RLe(alpha, Zero) THEN {}
          ELSE {[raised |-> FALSE, pred |-> <<nu, alpha, tau>>]})

\* ez_diffusion.generate_observed_statistics(R_pred, M_pred, V_pred, N):
\* raises, or returns the statistics observed in a sample of N
generate_observed_statistics(pred, N) ==
    {Raised("Exception", "generate_observed_statistics"),
     [raised |-> FALSE, obs |-> <<pred, N>>]}

\* the estimates an inversion of noisy statistics can return
Estimates == {<<Half, One, Rat(1, 10)>>, <<One, Two, Rat(3, 10)>>}

\* ez_diffusion.inverse(R_obs, M_obs, V_obs): an estimate (nu, alpha, tau),
\* a ValueError on a degenerate observation, or another exception
inverse(obs) ==
    {[raised |-> FALSE, est |-> e] : e \in Estimates}
    \cup {Raised("ValueError", "degenerate observation"),
          Raised("Exception", "inverse")}

\* steps 1 and 2 of simulate_and_recover (lines 46-49): the drift, boundary
\* and non-decision time the runner hands to the forward model
RunnerForward ==
    /\ \E p \in generate_true_parameters :
        \E f \in forward(p[1], p[2], p[3]) :
            fwd' = [op |-> "forward", nu |-> p[1], alpha |-> p[2], tau |-> p[3],
                    out |-> f]
    /\ UNCHANGED <<ez, ctor, inv>>
    /\ UNCHANGED <<runVars, sim>>

NextEZ == Construct \/ CallForward \/ CallInverse \/ RoundTrip \/ RunnerForward

\* the success record with the bias taken as estimated minus true
SuccessRecord_bias_reversed(nu, alpha, tau, est) ==
    LET bias_nu == RSub(est[1], nu)
        bias_alpha == RSub(est[2], alpha)
        bias_tau == RSub(est[3], tau)
    IN  [true_nu |-> nu, true_alpha |-> alpha, true_tau |-> tau,
         est_nu |-> est[1], est_alpha |-> est[2], est_tau |-> est[3],
         bias_nu |-> bias_nu, bias_alpha |-> bias_alpha, bias_tau |-> bias_tau,
         se_nu |-> RMul(bias_nu, bias_nu),
         se_alpha |-> RMul(bias_alpha, bias_alpha),
         se_tau |-> RMul(bias_tau, bias_tau),
         success |-> TRUE]

\* the record of a trial whose inversion returned (lines 58-81)
SuccessRecord(nu, alpha, tau, est) ==
    LET bias_nu == RSub(nu, est[1])
        bias_alpha == RSub(alpha, est[2])
        bias_tau == RSub(tau, est[3])
    IN  [true_nu |-> nu, true_alpha |-> alpha, true_tau |-> tau,
         est_nu |-> est[1], est_alpha |-> est[2], est_tau |-> est[3],
         bias_nu |-> bias_nu, bias_alpha |-> bias_alpha, bias_tau |-> bias_tau,
         se_nu |-> RMul(bias_nu, bias_nu),
         se_alpha |-> RMul(bias_alpha, bias_alpha),
         se_tau |-> RMul(bias_tau, bias_tau),
         success |-> TRUE]

\* the failure record with not-a-number placeholders for the estimates
FailureRecord_nan_estimates(nu, alpha, tau, e) ==
    [true_nu |-> nu, true_alpha |-> alpha, true_tau |-> tau,
     est_nu |-> "nan", est_alpha |-> "nan", est_tau |-> "nan",
     error |-> e.msg, success |-> FALSE]

\* the record of a trial whose inversion raised a caught exception (85-91)
FailureRecord(nu, alpha, tau, e) ==
    [true_nu |-> nu, true_alpha |-> alpha, true_tau |-> tau,
     error |-> e.msg, success |-> FALSE]

\* the exception types of the except clause of line 83
Caught == {"ValueError", "RuntimeWarning", "FloatingPointError"}

\* steps 4 and 5: the try block around the inversion
TryInverse(nu, alpha, tau, h) ==
    IF ~h.raised
    THEN [raised |-> FALSE, record |-> SuccessRecord(nu, alpha, tau, h.est)]
    ELSE IF h.type \in Caught
    THEN [raised |-> FALSE, record |-> FailureRecord(nu, alpha, tau, h)]
    ELSE [raised |-> TRUE, at |-> "inverse", type |-> h.type]

\* simulate_and_recover(N): every way one call can end. Each is the true
\* parameters drawn, what the inversion did (NoCall when it was not reached)
\* and the result res: a returned record or an exception leaving the call
simulate_and_recover(N) ==
    UNION {
        UNION {
            IF f.raised
            THEN {[params |-> p, inv |-> NoCall,
                   res |-> [raised |-> TRUE, at |-> "forward", type |-> f.type]]}
            ELSE UNION {
                IF g.raised
                THEN {[params |-> p, inv |-> NoCall,
                       res |-> [raised |-> TRUE,
                                at |-> "generate_observed_statistics",
                                type |-> g.type]]}
                ELSE {[params |-> p, inv |-> h,
                       res |-> TryInverse(p[1], p[2], p[3], h)]
                      : h \in inverse(g.obs)}
                : g \in generate_observed_statistics(f.pred, N)}
            : f \in forward(p[1], p[2], p[3])}
        : p \in generate_true_parameters}

NoException == [raised |-> FALSE]
EmptyDict == [k \in {} |-> <<>>]

\* results[N] = N_results
DictSet(d, key, val) ==
    [k \in DOMAIN d \cup {key} |-> IF k = key THEN val ELSE d[k]]

\* runner.run_simulations() is called: results = {}
CallRunSimulations ==
    /\ status = "configured"
    /\ status' = "running"
    /\ results' = EmptyDict
    /\ si' = 1
    /\ N_results' = <<>>
    /\ successful_iterations' = 0
    /\ i' = 0
    /\ UNCHANGED <<n_iterations, sample_sizes, exc, trial, summary>>
    /\ UNCHANGED <<ezVars, sim>>

\* one iteration of the inner loop (lines 107-115)
Iteration ==
    /\ status = "running"
    /\ si <= Len(sample_sizes)
    /\ i < n_iterations
    /\ \E out \in simulate_and_recover(sample_sizes[si]) :
        /\ trial' = [op |-> "simulate_and_recover", N |-> sample_sizes[si],
                      params |-> out.params, inv |-> out.inv, res |-> out.res]
        /\ IF out.res.raised
           THEN /\ status' = "raised"
                /\ exc' = out.res
                /\ UNCHANGED <<N_results, successful_iterations, i>>
           ELSE /\ N_results' = Append(N_results, out.res.record)
                /\ successful_iterations' =
                       IF out.res.record.success THEN successful_iterations + 1
                       ELSE successful_iterations
                /\ i' = i + 1
                /\ UNCHANGED <<status, exc>>
    /\ UNCHANGED <<n_iterations, sample_sizes, results, si, summary>>
    /\ UNCHANGED <<ezVars, sim>>

\* the inner loop is over (lines 117-118): the success rate is printed, the
\* list is stored under N and the next N begins
EndSize ==
    /\ status = "running"
    /\ si <= Len(sample_sizes)
    /\ i >= n_iterations
    /\ IF n_iterations = 0
       THEN /\ status' = "raised"
            /\ exc' = [raised |-> TRUE, at |-> "run_simulations",
                        type |-> "ZeroDivisionError"]
            /\ UNCHANGED <<results, si, N_results, successful_iterations, i>>
       ELSE /\ results' = DictSet(results, sample_sizes[si], N_results)
            /\ si' = si + 1
            /\ N_results' = <<>>
            /\ successful_iterations' = 0
            /\ i' = 0
            /\ UNCHANGED <<status, exc>>
    /\ UNCHANGED <<n_iterations, sample_sizes, trial, summary>>
    /\ UNCHANGED <<ezVars, sim>>

\* return results (line 120)
ReturnResults ==
    /\ status = "running"
    /\ si > Len(sample_sizes)
    /\ status' = "returned"
    /\ UNCHANGED <<n_iterations, sample_sizes, results, N_results, si, i,
                   successful_iterations, exc, trial, summary>>
    /\ UNCHANGED <<ezVars, sim>>

\* sum(xs) of a list of floats
RECURSIVE RSum(_)
RSum(xs) == IF xs = <<>> THEN Zero ELSE RAdd(xs[1], RSum(Tail(xs)))

\* np.mean(xs) of a non-empty list
np_mean(xs) == RDiv(RSum(xs), Rat(Len(xs), 1))

\* [r[field] for r in rs]
Column(rs, field) == [j \in 1..Len(rs) |-> rs[j][field]]

\* [r for r in N_results if r['success']] (line 136)
successful_results(rs) == SelectSeq(rs, LAMBDA r : r.success)

\* np.std(xs) / np.sqrt(n), kept symbolic
StdErr(xs) == [k |-> "std/sqrt(n)", of |-> xs]

\* analyze_results dividing the sums by the trials attempted, not by the
\* successful ones
analyze_results_over_attempted(res) ==
    LET kept == {N \in DOMAIN res : Len(successful_results(res[N])) # 0}
        mean(xs, n) == RDiv(RSum(xs), Rat(n, 1))
    IN  [N \in kept |->
            LET ok == successful_results(res[N])
                n == Len(res[N])
            IN  [n_successful |-> Len(ok),
                 bias_nu |-> mean(Column(ok, "bias_nu"), n),
                 bias_alpha |-> mean(Column(ok, "bias_alpha"), n),
                 bias_tau |-> mean(Column(ok, "bias_tau"), n),
                 se_nu |-> mean(Column(ok, "se_nu"), n),
                 se_alpha |-> mean(Column(ok, "se_alpha"), n),
                 se_tau |-> mean(Column(ok, "se_tau"), n),
                 std_bias_nu |-> StdErr(Column(ok, "bias_nu")),
                 std_bias_alpha |-> StdErr(Column(ok, "bias_alpha")),
                 std_bias_tau |-> StdErr(Column(ok, "bias_tau"))]]

\* analyze_results(results): the dict summary it returns
analyze_results(res) ==
    LET kept == {N \in DOMAIN res : Len(successful_results(res[N])) # 0}
    IN  [N \in kept |->
            LET ok == successful_results(res[N])
            IN  [n_successful |-> Len(ok),
                 bias_nu |-> np_mean(Column(ok, "bias_nu")),
                 bias_alpha |-> np_mean(Column(ok, "bias_alpha")),
                 bias_tau |-> np_mean(Column(ok, "bias_tau")),
                 se_nu |-> np_mean(Column(ok, "se_nu")),
                 se_alpha |-> np_mean(Column(ok, "se_alpha")),
                 se_tau |-> np_mean(Column(ok, "se_tau")),
                 std_bias_nu |-> StdErr(Column(ok, "bias_nu")),
                 std_bias_alpha |-> StdErr(Column(ok, "bias_alpha")),
                 std_bias_tau |-> StdErr(Column(ok, "bias_tau"))]]

\* runner.analyze_results(results) on what run_simulations returned
AnalyzeResults ==
    /\ status = "returned"
    /\ summary' = analyze_results(results)
    /\ status' = "analyzed"
    /\ UNCHANGED <<n_iterations, sample_sizes, results, N_results, si, i,
                   successful_iterations, exc, trial>>
    /\ UNCHANGED <<ezVars, sim>>

\* ------------------------------------------------------- specifications

\* no EZDiffusion method has been called yet on the runner's EZDiffusion()
InitCalls ==
    /\ ez = EZDiffusion_default
    /\ ctor = [op |-> "init", T_er |-> Rat(3, 10), a |-> Rat(1, 10),
                z |-> Rat(1, 2), raised |-> FALSE]
    /\ fwd = NoCall
    /\ inv = NoCall
    /\ sim = NoCall

\* SimulationRunner(n_iterations=n, sample_sizes=arg) (lines 17-19)
InitRunner(n, arg) ==
    /\ n_iterations = n
    /\ sample_sizes = SimulationRunner_sample_sizes(arg)
    /\ results = EmptyDict
    /\ N_results = <<>>
    /\ si = 0
    /\ i = 0
    /\ successful_iterations = 0
    /\ status = "configured"
    /\ exc = NoException
    /\ trial = NoCall
    /\ summary = EmptyDict

\* a runner of any configuration within the bounds
Init ==
    /\ InitCalls
    /\ \E n \in 0..MaxIter, arg \in SizeLists :
        /\ Len(SimulationRunner_sample_sizes(arg)) * n <= MaxTrials
        /\ InitRunner(n, arg)

\* SimulationRunner(): the default configuration, n_iterations=1000
InitEZ == InitCalls /\ InitRunner(1000, <<>>)

Next == CallRunSimulations \/ Iteration \/ EndSize \/ ReturnResults \/ AnalyzeResults

\* the simulate-and-recover run
Spec == Init /\ [][Next]_vars

\* calls of the EZDiffusion methods
SpecEZ == InitEZ /\ [][NextEZ]_vars

\* ------------------------------------------------- claims on EZDiffusion

\* inverse_equations has been applied to exactly what forward_equations
\* returned for the drift fwd.nu
RoundTripDone ==
    /\ fwd.op = "forward_equations"
    /\ ~fwd.out.raised
    /\ inv.op = "inverse_equations"
    /\ inv.mrt = fwd.out.mrt
    /\ inv.vrt = fwd.out.vrt
    /\ inv.pc = fwd.out.pc

InRange(x, lo, hi) == RLe(lo, x) /\ RLe(x, hi)

\* drift and boundary in [0.5, 2.0], non-decision time in [0.1, 0.5]
ValidParameterSet ==
    /\ InRange(fwd.nu, Half, Two)
    /\ InRange(ez.a, Half, Two)
    /\ InRange(ez.T_er, Rat(1, 10), Half)

\* C1: for every valid parameter set, the inverse equations applied to the
\* exact output of the forward equations return the drift, the boundary and
\* the non-decision time that the forward equations were given.
C1_RoundTripReproducesParameters ==
    (RoundTripDone /\ ValidParameterSet) =>
        /\ ~inv.out.raised
        /\ inv.out.ret = <<RealRat(fwd.nu), RealRat(ez.a), RealRat(ez.T_er)>>

\* inverse_equations was called with this literal accuracy and a positive
\* variance
InverseCalledAt(acc) ==
    /\ inv.op = "inverse_equations"
    /\ inv.pc.k = "lit"
    /\ inv.pc.v = acc
    /\ RLt(Zero, inv.vrt)

\* C2: recovering from an accuracy of exactly 0.5 with a positive variance
\* is a failure; no drift estimate is returned.
C2_HalfAccuracyIsFailure ==
    InverseCalledAt(Half) => inv.out.raised

\* C3: given an accuracy of exactly 0 or exactly 1 with a positive variance,
\* the inverse model does not fail: it goes on to return an estimate.
C3_EndpointAccuracyIsClamped ==
    (InverseCalledAt(Zero) \/ InverseCalledAt(One)) =>
        /\ ~inv.out.raised
        /\ inv.out.logit_pc # NotComputed

\* C4: every variance <= 0 given to the inverse model is rejected with a
\* failure raised before the logit is computed, and no estimate is returned.
C4_NonPositiveVarianceRejected ==
    (inv.op = "inverse_equations" /\ RLe(inv.vrt, Zero)) =>
        /\ inv.out.raised
        /\ inv.out.logit_pc = NotComputed
        /\ "ret" \notin DOMAIN inv.out

\* C4 witness: a variance <= 0 with an accuracy inside (0, 1) was rejected
\* by the variance check
C4_Witness ==
    /\ inv.op = "inverse_equations"
    /\ RLe(inv.vrt, Zero)
    /\ InUnitInterval(inv.pc)
    /\ inv.out.raised
    /\ inv.out.msg = "RT variance must be positive"

StatFields == {"mrt", "vrt", "pc", "pred"}

\* C5: the forward model fails on drift = 0 or boundary <= 0 and returns no
\* statistics then: a boundary <= 0 never makes an object, so every
\* forward_equations call has a positive boundary; a drift of 0 raises; and
\* the parameters the runner hands to the forward model are never invalid
\* without the call failing.
C5_InvalidParametersFail ==
    /\ RLe(ctor.a, Zero) => (ctor.raised /\ ez = NoObject)
    /\ fwd.op = "forward_equations" =>
        /\ ez # NoObject
        /\ RLt(Zero, ez.a)
        /\ fwd.nu = Zero =>
            (fwd.out.raised /\ DOMAIN fwd.out \cap StatFields = {})
    /\ fwd.op = "forward" =>
        ((fwd.nu = Zero \/ RLe(fwd.alpha, Zero)) =>
            (fwd.out.raised /\ DOMAIN fwd.out \cap StatFields = {}))

\* C5 witness: forward_equations was called with a drift of 0 and raised
C5_Witness ==
    /\ fwd.op = "forward_equations"
    /\ fwd.nu = Zero
    /\ fwd.out.raised

\* --------------------------------------------- claims on SimulationRunner

\* C6: no exception raised inside a trial (by the forward prediction, the
\* noise sampling or the inversion) leaves simulate_and_recover and ends
\* run_simulations.
C6_NoTrialExceptionEscapes ==
    ~(status = "raised"
      /\ exc.at \in {"forward", "generate_observed_statistics", "inverse"})

RECURSIVE TotalRecords(_, _)
\* the number of records held by the lists of d under the keys of S
TotalRecords(d, S) ==
    IF S = {} THEN 0
    ELSE LET k == CHOOSE x \in S : TRUE
         IN  Len(d[k]) + TotalRecords(d, S \ {k})

Completed == status \in {"returned", "analyzed"}

\* C7: after run_simulations completes, results hold n_iterations records
\* for each entry of sample_sizes, len(sample_sizes) * n_iterations in all.
C7_RecordsPerConfiguredSize ==
    Completed =>
        /\ \A k \in 1..Len(sample_sizes) :
            /\ sample_sizes[k] \in DOMAIN results
            /\ Len(results[sample_sizes[k]]) = n_iterations
        /\ TotalRecords(results, DOMAIN results) = Len(sample_sizes) * n_iterations

RECURSIVE SumOver(_, _)
\* the sum of f[j] over the j of S
SumOver(S, f) ==
    IF S = {} THEN Zero
    ELSE LET j == CHOOSE x \in S : TRUE
         IN  RAdd(f[j], SumOver(S \ {j}, f))

\* the positions of the successful records of sample size N
SuccessfulAt(N) == {j \in 1..Len(results[N]) : results[N][j].success}

AggregateFields == {"bias_nu", "bias_alpha", "bias_tau", "se_nu", "se_alpha", "se_tau"}

\* C8: for each sample size of the summary, each mean bias and mean squared
\* error times the number of successful trials of that size equals the sum
\* of that field over exactly those trials.
C8_MeansOverSuccessfulTrials ==
    status = "analyzed" =>
        \A N \in DOMAIN summary :
            LET S == SuccessfulAt(N)
            IN  /\ S # {}
                /\ \A f \in AggregateFields :
                    RMul(summary[N][f], Rat(Cardinality(S), 1))
                        = SumOver(S, [j \in S |-> results[N][j][f]])

\* C8 witness: two sample sizes are summarised with different mean drift
\* bias, and one of them has a failed trial beside a successful one
C8_Witness ==
    /\ status = "analyzed"
    /\ \E N \in DOMAIN summary, M \in DOMAIN summary :
        /\ N # M
        /\ summary[N].bias_nu # summary[M].bias_nu
        /\ \E j \in 1..Len(results[N]) : ~results[N][j].success

\* C9: the summary has an entry for every configured sample size, also one
\* at which no trial succeeded, and the entry reports the success rate:
\* successful trials divided by attempted trials.
C9_EverySizeSummarisedWithRate ==
    status = "analyzed" =>
        \A k \in 1..Len(sample_sizes) :
            LET N == sample_sizes[k]
            IN  /\ N \in DOMAIN summary
                /\ "success_rate" \in DOMAIN summary[N]
                /\ summary[N].success_rate
                     = Rat(Cardinality(SuccessfulAt(N)), Len(results[N]))

SuccessFields ==
    {"true_nu", "true_alpha", "true_tau", "est_nu", "est_alpha", "est_tau",
     "bias_nu", "bias_alpha", "bias_tau", "se_nu", "se_alpha", "se_tau",
     "success"}
FailureFields == {"true_nu", "true_alpha", "true_tau", "error", "success"}

\* every record the run holds
AllRecords ==
    {N_results[j] : j \in 1..Len(N_results)}
    \cup UNION {{results[N][j] : j \in 1..Len(results[N])} : N \in DOMAIN results}

\* C10: every record is tagged; the record of a trial whose inversion failed
\* has the true parameters, the reason and success = False and no estimate,
\* bias or squared-error field; a record tagged success = True has them all.
C10_RecordsTagged ==
    /\ \A r \in AllRecords :
        /\ "success" \in DOMAIN r
        /\ r.success \in BOOLEAN
        /\ DOMAIN r = IF r.success THEN SuccessFields ELSE FailureFields
    /\ (trial.op = "simulate_and_recover" /\ ~trial.res.raised) =>
        LET r == trial.res.record
        IN  /\ <<r.true_nu, r.true_alpha, r.true_tau>> = trial.params
            /\ trial.inv.raised =>
                /\ r.success = FALSE
                /\ DOMAIN r = FailureFields
                /\ r.error = trial.inv.msg
            /\ ~trial.inv.raised =>
                /\ r.success = TRUE
                /\ DOMAIN r = SuccessFields

\* C10 witness: the inversion of the last trial failed and its failure
\* record was appended to the list
C10_Witness ==
    /\ trial.op = "simulate_and_recover"
    /\ ~trial.res.raised
    /\ trial.inv.raised
    /\ N_results # <<>>
    /\ N_results[Len(N_results)] = trial.res.record
    /\ ~N_results[Len(N_results)].success

\* x squared, as a product of the numerators and of the denominators
Squared(x) == Rat(x[1] * x[1], x[2] * x[2])

\* C11: in every successful record, for each of the three parameters, the
\* bias is the true value minus the estimate the inversion returned, and the
\* squared error is that bias times itself.
C11_BiasIsTrueMinusEstimated ==
    /\ \A r \in AllRecords :
        r.success =>
            /\ RAdd(r.bias_nu, r.est_nu) = r.true_nu
            /\ RAdd(r.bias_alpha, r.est_alpha) = r.true_alpha
            /\ RAdd(r.bias_tau, r.est_tau) = r.true_tau
            /\ r.se_nu = Squared(r.bias_nu)
            /\ r.se_alpha = Squared(r.bias_alpha)
            /\ r.se_tau = Squared(r.bias_tau)
    /\ (trial.op = "simulate_and_recover" /\ ~trial.res.raised
          /\ ~trial.inv.raised) =>
        LET r == trial.res.record
        IN  /\ <<r.true_nu, r.true_alpha, r.true_tau>> = trial.params
            /\ <<r.est_nu, r.est_alpha, r.est_tau>> = trial.inv.est

\* C11 witness: a successful record with a positive drift bias, a negative
\* boundary bias and a non-zero non-decision bias
C11_Witness ==
    \E r \in AllRecords :
        /\ r.success
        /\ RLt(Zero, r.bias_nu)
        /\ RLt(r.bias_alpha, Zero)
        /\ r.bias_tau # Zero

\* ------------------------------------------- claims on the recovered drift

\* the sign of (pc - 0.5): 1/(1+exp(-x)) is above 0.5 exactly when x > 0
AccuracySign(pc) ==
    IF pc.k = "sigmoid"
    THEN (IF pc.x[1] < 0 THEN -1 ELSE IF pc.x[1] = 0 THEN 0 ELSE 1)
    ELSE (IF RLt(pc.v, Half) THEN -1 ELSE IF pc.v = Half THEN 0 ELSE 1)

\* C12: for every accuracy strictly between 0 and 1 and every positive
\* variance, the drift that inverse_equations returns has the sign of
\* (accuracy - 0.5), whatever the boundary a > 0 and starting point
\* 0 < z < 1 of the object.
C12_DriftSignFollowsAccuracy ==
    (inv.op = "inverse_equations" /\ InUnitInterval(inv.pc)
        /\ RLt(Zero, inv.vrt)) =>
        /\ ~inv.out.raised
        /\ XSign(inv.out.ret[1]) = AccuracySign(inv.pc)

\* C12 witness: an accuracy below 0.5 given to an object with an asymmetric
\* starting point came back as a negative drift
C12_Witness ==
    /\ inv.op = "inverse_equations"
    /\ inv.pc.k = "lit"
    /\ RLt(Zero, inv.pc.v)
    /\ RLt(inv.pc.v, Half)
    /\ RLt(Zero, inv.vrt)
    /\ ez.z # Half
    /\ ~inv.out.raised
    /\ XSign(inv.out.ret[1]) = -1

\* --------------------------------------------------- EZDiffusion.simulate

NoHit == [none |-> TRUE]

\* the arguments simulate is called with, and the steps dx a walk can take
\* (dx = nu * dt + sqrt(dt) * normal() is any real number)
SimNuArgs == {One}
SimDtArgs == {Zero, Half, One}
SimMaxTArgs == {Zero, One, Rat(3, 2)}
DxValues == {Rat(-1, 2), Rat(-1, 4), Rat(1, 4), Rat(1, 2)}

\* np.zeros(n)
np_zeros(n) == [j \in 1..n |-> Zero]

\* obj.simulate(nu, n_trials, dt, max_t): the validation of lines 61-66, then
\* the arrays and p_correct of lines 72-77
CallSimulate ==
    /\ sim = NoCall
    /\ \E nu \in SimNuArgs, n_trials \in 0..MaxSimTrials,
          dt \in SimDtArgs, max_t \in SimMaxTArgs :
        sim' =
            IF n_trials <= 0
            THEN [op |-> "simulate", raised |-> TRUE,
                  msg |-> "Number of trials must be a positive integer"]
            ELSE IF RLe(dt, Zero)
            THEN [op |-> "simulate", raised |-> TRUE,
                  msg |-> "Time step must be positive"]
            ELSE IF RLe(max_t, Zero)
            THEN [op |-> "simulate", raised |-> TRUE,
                  msg |-> "Maximum time must be positive"]
            ELSE [op |-> "simulate", raised |-> FALSE, pc |-> "for",
                  nu |-> nu, n_trials |-> n_trials, dt |-> dt, max_t |-> max_t,
                  rt |-> np_zeros(n_trials),
                  choice |-> [j \in 1..n_trials |-> 0],
                  p_correct |-> InvOnePlusExp(
                      RMul(RMul(RMul(Rat(-2, 1), nu), ez.a), ez.z)),
                  i |-> 0, x |-> Zero, t |-> Zero, correct |-> FALSE,
                  steps |-> 0, hit |-> NoHit, hist |-> <<>>]
    /\ UNCHANGED <<ezVars, runVars>>

SimAt(pc) == sim.op = "simulate" /\ ~sim.raised /\ sim.pc = pc

\* the head of the body of for i in range(n_trials) (lines 82-86): the walk
\* starts at z * a and the correctness of the trial is drawn
StartTrial ==
    /\ SimAt("for")
    /\ sim.i < sim.n_trials
    /\ \E correct \in BOOLEAN :
        sim' = [sim EXCEPT !.pc = "while", !.x = RMul(ez.z, ez.a), !.t = Zero,
                           !.correct = correct, !.steps = 0, !.hit = NoHit]
    /\ UNCHANGED <<ezVars, runVars>>

\* one pass of while t < max_t (lines 88-102)
WalkStep ==
    /\ SimAt("while")
    /\ RLt(sim.t, sim.max_t)
    /\ \E dx \in DxValues :
        LET x == RAdd(sim.x, dx)
            t == RAdd(sim.t, sim.dt)
            k == sim.i + 1
            moved == [sim EXCEPT !.x = x, !.t = t, !.steps = @ + 1]
        IN  sim' =
                IF RLe(x, Zero)
                THEN [moved EXCEPT !.rt[k] = RAdd(t, ez.T_er), !.choice[k] = 0,
                                   !.hit = [t |-> t, choice |-> 0],
                                   !.pc = "after"]
                ELSE IF RLe(ez.a, x)
                THEN [moved EXCEPT !.rt[k] = RAdd(t, ez.T_er), !.choice[k] = 1,
                                   !.hit = [t |-> t, choice |-> 1],
                                   !.pc = "after"]
                ELSE moved
    /\ UNCHANGED <<ezVars, runVars>>

\* after the while loop, left by break or by t >= max_t (lines 104-108), and
\* on to the next i
AfterWalk ==
    /\ SimAt("after") \/ (SimAt("while") /\ ~RLt(sim.t, sim.max_t))
    /\ LET k == sim.i + 1
           done == [sim EXCEPT !.pc = "for", !.i = @ + 1,
                       !.hist = Append(@, [steps |-> sim.steps, hit |-> sim.hit,
                                           correct |-> sim.correct])]
       IN  sim' =
               IF RLe(sim.max_t, sim.t)
               THEN [done EXCEPT !.rt[k] = sim.max_t,
                                 !.choice[k] = IF sim.correct THEN 1 ELSE 0]
               ELSE done
    /\ UNCHANGED <<ezVars, runVars>>

\* return rt, choice (line 110)
ReturnSimulate ==
    /\ SimAt("for")
    /\ sim.i >= sim.n_trials
    /\ sim' = [sim EXCEPT !.pc = "returned"]
    /\ UNCHANGED <<ezVars, runVars>>

NextSim == CallSimulate \/ StartTrial \/ WalkStep \/ AfterWalk \/ ReturnSimulate

\* the objects simulate is called on
InitSim ==
    /\ \E T_er \in {Rat(3, 10)}, a \in {One}, z \in {Rat(1, 4), Half} :
        /\ ez = EZDiffusion_init(T_er, a, z)
        /\ ctor = [op |-> "init", T_er |-> T_er, a |-> a, z |-> z,
                    raised |-> FALSE]
    /\ fwd = NoCall
    /\ inv = NoCall
    /\ sim = NoCall
    /\ InitRunner(1000, <<>>)

\* calls of EZDiffusion.simulate
SpecSim == InitSim /\ [][NextSim]_vars

\* the smallest integer >= q, for q >= 0
Ceil(q) == (q[1] + q[2] - 1) \div q[2]

\* C13: every trial of the random walk ends after at most ceil(max_t / dt)
\* steps; a trial whose walk reached a boundary on any step, the last one
\* allowed by max_t included, has rt = crossing time + T_er and the choice
\* of the boundary reached (0 lower, 1 upper); a trial that never reached a
\* boundary has rt = max_t and the choice drawn beforehand.
C13_WalkOutcome ==
    (sim.op = "simulate" /\ ~sim.raised) =>
        \A j \in 1..Len(sim.hist) :
            LET h == sim.hist[j]
            IN  /\ h.steps <= Ceil(RDiv(sim.max_t, sim.dt))
                /\ h.hit # NoHit =>
                    /\ sim.rt[j] = RAdd(h.hit.t, ez.T_er)
                    /\ sim.choice[j] = h.hit.choice
                /\ h.hit = NoHit =>
                    /\ sim.rt[j] = sim.max_t
                    /\ sim.choice[j] = IF h.correct THEN 1 ELSE 0

====
